---- MODULE Spec2Model ----
(***************************************************************************)
(* Journal-entry risk scoring (src/src/risk_scoring.py).                   *)
(*                                                                         *)
(* A dataset (pandas DataFrame) is a record [columns, rows]: the set of    *)
(* column names and the sequence of rows, each row a function from column  *)
(* name to cell value.  Amounts are whole currency units.  A float is an   *)
(* exact fraction [num, den]; a standard deviation is kept as its square;  *)
(* a z-score is kept as [sgn, p, q], standing for sgn * sqrt(p / q), so    *)
(* that every comparison the code makes is decided exactly.                *)
(***************************************************************************)
EXTENDS Integers, Sequences, FiniteSets, TLC

VARIABLES csv, df, pc, error, output

vars == <<csv, df, pc, error, output>>

(***************************************************************************)
(* Missing values.  Null is the empty cell of a string column.  NaN is the *)
(* missing float, the fraction 0/0; a fraction with den = 0 is NaN.  NaNZ  *)
(* is the missing z-score.                                                 *)
(***************************************************************************)
Null == ""

NaN == [num |-> 0, den |-> 0]

F(n) == [num |-> n, den |-> 1]

IsNaN(f) == f.den = 0

ZeroZ == [sgn |-> 0, p |-> 0, q |-> 1]

NaNZ == [sgn |-> 0, p |-> 0, q |-> 0]

(***************************************************************************)
(* Generic helpers.                                                        *)
(***************************************************************************)
Abs(x) == IF x < 0 THEN -x ELSE x

Sign(x) == IF x < 0 THEN -1 ELSE IF x = 0 THEN 0 ELSE 1

Min(a, b) == IF a <= b THEN a ELSE b

RECURSIVE SumSeq(_)
SumSeq(s) == IF s = <<>> THEN 0 ELSE Head(s) + SumSeq(Tail(s))

RECURSIVE SumSqSeq(_)
SumSqSeq(s) == IF s = <<>> THEN 0 ELSE Head(s) * Head(s) + SumSqSeq(Tail(s))

RECURSIVE SetToSeq(_)
SetToSeq(S) == IF S = {} THEN <<>>
               ELSE LET x == CHOOSE y \in S : TRUE IN <<x>> \o SetToSeq(S \ {x})

RECURSIVE Flatten(_)
Flatten(ss) == IF ss = <<>> THEN <<>> ELSE Head(ss) \o Flatten(Tail(ss))

AsInt(b) == IF b THEN 1 ELSE 0

\* The values of column c of a sequence of rows, in row order.
ColOf(rows, c) == [i \in DOMAIN rows |-> rows[i][c]]

\* df[c] = values: the column is added, or replaced when it exists.
WithCol(d, c, values) ==
    [columns |-> d.columns \cup {c},
     rows    |-> [i \in DOMAIN d.rows |-> (c :> values[i]) @@ d.rows[i]]]

\* The distinct keys of df.groupby(keycols); a key with a missing value in
\* one of its string columns is dropped (dropna=True).
GroupKeys(d, keycols, strcols) ==
    {k \in {[c \in keycols |-> d.rows[i][c]] : i \in DOMAIN d.rows} :
        \A c \in strcols : k[c] # Null}

\* The rows of a group, in row order.
GroupRows(d, key) ==
    SelectSeq(d.rows, LAMBDA r : \A c \in DOMAIN key : r[c] = key[c])

\* One row of a left join: one copy per matching table entry, or one copy
\* with NaN in the new columns when nothing matches.
JoinRow(r, table, keycols, newcols, missing) ==
    LET hits == {t \in table : \A c \in keycols : t[c] = r[c]}
    IN  IF hits = {} THEN <<[c \in newcols |-> missing] @@ r>>
        ELSE LET hs == SetToSeq(hits)
             IN  [j \in DOMAIN hs |-> [c \in newcols |-> hs[j][c]] @@ r]

\* df.join(table, on=keycols) and df.merge(table, on=keycols, how="left").
LeftJoin(d, table, keycols, newcols, missing) ==
    [columns |-> d.columns \cup newcols,
     rows    |-> Flatten([i \in DOMAIN d.rows |->
                            JoinRow(d.rows[i], table, keycols, newcols, missing)])]

(***************************************************************************)
(* Statistics of a sequence of integers, as pandas aggregates them.        *)
(***************************************************************************)
\* mean: sum / count.
SeriesMean(s) == [num |-> SumSeq(s), den |-> Len(s)]

\* The population deviation (ddof = 0), which pandas' std does not compute.
SeriesStdPopulation(s) ==
    [num |-> Len(s) * SumSqSeq(s) - SumSeq(s) * SumSeq(s), den |-> Len(s) * Len(s)]

\* std: the sample deviation (ddof = 1), kept as the variance
\* (n * sum(x^2) - sum(x)^2) / (n * (n - 1)); NaN for a single value.
SeriesStd(s) ==
    [num |-> Len(s) * SumSqSeq(s) - SumSeq(s) * SumSeq(s),
     den |-> Len(s) * (Len(s) - 1)]

\* std.replace(0, np.nan)
ReplaceZeroStd(std) == IF ~IsNaN(std) /\ std.num = 0 THEN NaN ELSE std

\* (x - mean) / std, NaN as soon as the mean or the deviation is NaN.
\* With mean = mn/md and std^2 = sn/sd: z^2 = (x*md - mn)^2 * sd / (md^2 * sn).
ZScore(x, mean, std) ==
    IF IsNaN(mean) \/ IsNaN(std) THEN NaNZ
    ELSE LET diff == x * mean.den - mean.num
         IN  IF diff = 0 THEN ZeroZ
             ELSE [sgn |-> Sign(diff),
                   p   |-> diff * diff * std.den,
                   q   |-> mean.den * mean.den * std.num]

\* A z-score left as it is: a missing score stays missing.
KeepNa(z) == z

\* fillna(0)
FillNa0(z) == IF z.q = 0 THEN ZeroZ ELSE z

\* z >= 2 (False for NaN): sgn * sqrt(p / q) >= 2 iff sgn = 1 and p >= 4 q.
ZAtLeast2(z) == z.q # 0 /\ z.sgn = 1 /\ z.p >= 4 * z.q

(***************************************************************************)
(* compute_amount_stats                                                    *)
(***************************************************************************)
\* The statistics grouped by account and amount: several entries per account.
AmountStatsByAmount(d) ==
    {[account        |-> k.account,
      avg_abs_amount |-> SeriesMean(ColOf(GroupRows(d, k), "abs_amount")),
      std_abs_amount |-> SeriesStd(ColOf(GroupRows(d, k), "abs_amount"))]
     : k \in GroupKeys(d, {"account", "abs_amount"}, {"account"})}

\* df.groupby("account")["abs_amount"].agg(["mean", "std"]), renamed.
AmountStats(d) ==
    {[account        |-> k.account,
      avg_abs_amount |-> SeriesMean(ColOf(GroupRows(d, k), "abs_amount")),
      std_abs_amount |-> SeriesStd(ColOf(GroupRows(d, k), "abs_amount"))]
     : k \in GroupKeys(d, {"account"}, {"account"})}

compute_amount_stats(d) ==
    LET d1 == WithCol(d, "abs_amount", [i \in DOMAIN d.rows |-> Abs(d.rows[i].amount)])
        d2 == LeftJoin(d1, AmountStats(d1), {"account"},
                       {"avg_abs_amount", "std_abs_amount"}, NaN)
        d3 == WithCol(d2, "amount_z",
                 [i \in DOMAIN d2.rows |->
                    FillNa0(ZScore(d2.rows[i].abs_amount, d2.rows[i].avg_abs_amount,
                                   ReplaceZeroStd(d2.rows[i].std_abs_amount)))])
        d4 == WithCol(d3, "amount_outlier_flag",
                 [i \in DOMAIN d3.rows |-> AsInt(ZAtLeast2(d3.rows[i].amount_z))])
    IN  WithCol(d4, "round_dollar_flag",
                 [i \in DOMAIN d4.rows |-> AsInt(d4.rows[i].abs_amount % 100 = 0)])

(***************************************************************************)
(* compute_user_volume                                                     *)
(***************************************************************************)
\* posting_date.values.astype("datetime64[M]"): the first day of the month.
MonthStart(date) == [month |-> date.month, day |-> 1]

\* The lines of each (user, month) counted instead of its distinct entries.
PerUserMonthLines(d) ==
    {[created_by  |-> k.created_by,
      month_start |-> k.month_start,
      entry_id    |-> Len(GroupRows(d, k))]
     : k \in GroupKeys(d, {"created_by", "month_start"}, {"created_by"})}

\* df.groupby(["created_by", "month_start"])["entry_id"].nunique()
PerUserMonth(d) ==
    {[created_by  |-> k.created_by,
      month_start |-> k.month_start,
      entry_id    |-> Cardinality({r.entry_id : r \in
                          {GroupRows(d, k)[i] : i \in DOMAIN GroupRows(d, k)}})]
     : k \in GroupKeys(d, {"created_by", "month_start"}, {"created_by"})}

\* The monthly volumes of one user, one value per month of that user.
UserVolumes(pum, user) ==
    ColOf(SetToSeq({t \in pum : t.created_by = user}), "entry_id")

\* per_user_month.groupby("created_by").agg(["mean", "std"]), renamed.
UserStats(pum) ==
    {[created_by  |-> u,
      avg_entries |-> SeriesMean(UserVolumes(pum, u)),
      std_entries |-> SeriesStd(UserVolumes(pum, u))]
     : u \in {t.created_by : t \in pum}}

\* per_user_month joined with the user's statistics, and the z-score of each
\* (user, month), with fillna(0).
ZScores(pum) ==
    {[created_by     |-> t.created_by,
      month_start    |-> t.month_start,
      entry_volume_z |->
          LET st == CHOOSE x \in UserStats(pum) : x.created_by = t.created_by
          IN  FillNa0(ZScore(t.entry_id, st.avg_entries, ReplaceZeroStd(st.std_entries)))]
     : t \in pum}

compute_user_volume(d) ==
    LET d1 == WithCol(d, "month_start",
                 [i \in DOMAIN d.rows |-> MonthStart(d.rows[i].posting_date)])
        d2 == LeftJoin(d1, ZScores(PerUserMonth(d1)), {"created_by", "month_start"},
                       {"entry_volume_z"}, NaNZ)
    IN  WithCol(d2, "user_volume_outlier_flag",
                 [i \in DOMAIN d2.rows |-> AsInt(ZAtLeast2(d2.rows[i].entry_volume_z))])

(***************************************************************************)
(* compute_pair_rarity                                                     *)
(***************************************************************************)
\* a <= b on floats, False when either is NaN.
FLe(a, b) == ~IsNaN(a) /\ ~IsNaN(b) /\ a.num * b.den <= b.num * a.den

\* a == b on floats, False when either is NaN.
FEq(a, b) == ~IsNaN(a) /\ ~IsNaN(b) /\ a.num * b.den = b.num * a.den

\* The k-th smallest (from 0) of a sequence of integers.
Kth(s, k) ==
    CHOOSE v \in {s[i] : i \in DOMAIN s} :
        /\ Cardinality({i \in DOMAIN s : s[i] < v}) <= k
        /\ k < Cardinality({i \in DOMAIN s : s[i] <= v})

\* np.percentile(counts, 25): linear interpolation between the two order
\* statistics around position 0.25 * (n - 1); NaN when a value is NaN.
Percentile25(counts) ==
    IF \E i \in DOMAIN counts : IsNaN(counts[i]) THEN NaN
    ELSE LET s  == [i \in DOMAIN counts |-> counts[i].num]
             n  == Len(s)
             k  == (n - 1) \div 4
             r  == (n - 1) % 4
             lo == Kth(s, k)
             hi == Kth(s, Min(k + 1, n - 1))
         IN  [num |-> 4 * lo + r * (hi - lo), den |-> 4]

\* df.groupby(["account", "offset_account"]).size()
PairCounts(d) ==
    {[account        |-> k.account,
      offset_account |-> k.offset_account,
      pair_count     |-> F(Len(GroupRows(d, k)))]
     : k \in GroupKeys(d, {"account", "offset_account"}, {"account", "offset_account"})}

\* The threshold of the account group a row belongs to.
AccountThreshold(d, account) ==
    Percentile25(ColOf(GroupRows(d, [account |-> account]), "pair_count"))

\* The flag without the (counts == 1) clause.
RareNoSingleton(count, threshold) == FLe(count, threshold)

\* (counts <= threshold) | (counts == 1)
Rare(count, threshold) == FLe(count, threshold) \/ FEq(count, F(1))

compute_pair_rarity(d) ==
    LET d1 == LeftJoin(d, PairCounts(d), {"account", "offset_account"}, {"pair_count"}, NaN)
    IN  WithCol(d1, "rare_pair_flag",
            [i \in DOMAIN d1.rows |->
                IF d1.rows[i].account = Null THEN 0
                ELSE AsInt(Rare(d1.rows[i].pair_count,
                                AccountThreshold(d1, d1.rows[i].account)))])

(***************************************************************************)
(* add_time_features.  A date is [month, day] and a timestamp is           *)
(* [month, day, hour], both of the year 2024.                              *)
(***************************************************************************)
\* The days before the first of each month of 2024.
DaysBeforeMonth == <<0, 31, 60, 91, 121, 152, 182, 213, 244, 274, 305, 335>>

DayOfYear(date) == DaysBeforeMonth[date.month] + date.day

\* Series.dt.dayofweek, 0 = Monday; 2024-01-01 is a Monday.
DayOfWeek(date) == (DayOfYear(date) - 1) % 7

\* Timestamp.tz_localize(zone) raises for a wall time the zone skips (spring
\* forward: 2024-03-10 02:00-03:00 in New York) or repeats (fall back:
\* 2024-11-03 01:00-02:00).  "" when it returns.
tz_localize_raises(ts, zone) ==
    IF zone = "America/New_York" /\ ts.month = 3 /\ ts.day = 10 /\ ts.hour = 2
    THEN "NonExistentTimeError"
    ELSE IF zone = "America/New_York" /\ ts.month = 11 /\ ts.day = 3 /\ ts.hour = 1
    THEN "AmbiguousTimeError"
    ELSE ""

\* tz_localize attaches the zone to the naive wall time: the hour is kept.
LocalHour(ts, zone) == ts.hour

\* "" when the stage completes, else the exception of the first row that
\* raises one.
add_time_features_raises(d) ==
    LET bad == {i \in DOMAIN d.rows :
                  tz_localize_raises(d.rows[i].posting_timestamp, d.rows[i].time_zone) # ""}
    IN  IF bad = {} THEN ""
        ELSE LET i == CHOOSE j \in bad : \A k \in bad : j <= k
             IN  tz_localize_raises(d.rows[i].posting_timestamp, d.rows[i].time_zone)

add_time_features(d) ==
    LET d1 == WithCol(d, "local_hour",
                 [i \in DOMAIN d.rows |->
                    LocalHour(d.rows[i].posting_timestamp, d.rows[i].time_zone)])
    IN  WithCol(d1, "dow", [i \in DOMAIN d1.rows |-> DayOfWeek(d1.rows[i].posting_date)])

(***************************************************************************)
(* compute_rule_flags.  description and approval_status are texts:         *)
(* sequences of characters, the empty cell <<>> being read as NaN.         *)
(***************************************************************************)
NullText == <<>>

UpperChars == <<"A", "B", "C", "D", "E", "F", "G", "H", "I", "J", "K", "L", "M",
                "N", "O", "P", "Q", "R", "S", "T", "U", "V", "W", "X", "Y", "Z">>

LowerChars == <<"a", "b", "c", "d", "e", "f", "g", "h", "i", "j", "k", "l", "m",
                "n", "o", "p", "q", "r", "s", "t", "u", "v", "w", "x", "y", "z">>

LowerChar(c) ==
    IF \E i \in DOMAIN UpperChars : UpperChars[i] = c
    THEN LowerChars[CHOOSE i \in DOMAIN UpperChars : UpperChars[i] = c]
    ELSE c

\* Series.str.lower(): NaN stays NaN.
Lower(text) == [i \in DOMAIN text |-> LowerChar(text[i])]

\* k in x, on strings.
Contains(k, x) ==
    \E i \in 0..(Len(x) - Len(k)) : SubSeq(x, i + 1, i + Len(k)) = k

KEYWORDS == << <<"g", "i", "f", "t">>,
               <<"m", "a", "n", "u", "a", "l">>,
               <<"w", "r", "i", "t", "e", "-", "o", "f", "f">>,
               <<"w", "r", "i", "t", "e", " ", "o", "f", "f">> >>

Approved == <<"a", "p", "p", "r", "o", "v", "e", "d">>

Posted == <<"p", "o", "s", "t", "e", "d">>

entity_hours ==
    [US   |-> [start |-> 8, end |-> 18, weekend_days |-> {5, 6}],
     UK   |-> [start |-> 8, end |-> 18, weekend_days |-> {5, 6}],
     APAC |-> [start |-> 9, end |-> 18, weekend_days |-> {5, 6}]]

hours_for_entity(entity) ==
    IF entity \in DOMAIN entity_hours THEN entity_hours[entity]
    ELSE [start |-> 8, end |-> 18, weekend_days |-> {5, 6}]

AfterHours(row) ==
    \/ row.local_hour < hours_for_entity(row.entity).start
    \/ row.local_hour >= hours_for_entity(row.entity).end

Weekend(row) == row.dow \in hours_for_entity(row.entity).weekend_days

\* posting_date >= month start + 25 days.
PeriodClose(row) ==
    DayOfYear(row.posting_date) >= DayOfYear(MonthStart(row.posting_date)) + 25

\* ~lower(approval_status).isin(["approved", "posted"]); NaN is in no list.
ApprovalPending(row) ==
    ~(row.approval_status # NullText /\ Lower(row.approval_status) \in {Approved, Posted})

KeywordHit(row) ==
    \E j \in DOMAIN KEYWORDS : Contains(KEYWORDS[j], Lower(row.description))

\* The .str accessor exists only on a column that holds strings: a column
\* whose cells are all empty is read as a float column.
StrAccessorFails(d, c) == \A i \in DOMAIN d.rows : d.rows[i][c] = NullText

\* "" when the stage completes, else the exception it raises: the .str of an
\* all-empty column, or `k in x` on the NaN of an empty description.
compute_rule_flags_raises(d) ==
    IF StrAccessorFails(d, "approval_status") \/ StrAccessorFails(d, "description")
    THEN "AttributeError"
    ELSE IF \E i \in DOMAIN d.rows : d.rows[i].description = NullText
    THEN "TypeError"
    ELSE ""

compute_rule_flags(d) ==
    LET d1 == WithCol(d, "after_hours_flag",
                 [i \in DOMAIN d.rows |-> AsInt(AfterHours(d.rows[i]))])
        d2 == WithCol(d1, "weekend_flag",
                 [i \in DOMAIN d.rows |-> AsInt(Weekend(d.rows[i]))])
        d3 == WithCol(d2, "period_close_flag",
                 [i \in DOMAIN d.rows |-> AsInt(PeriodClose(d.rows[i]))])
        d4 == WithCol(d3, "approval_pending_flag",
                 [i \in DOMAIN d.rows |-> AsInt(ApprovalPending(d.rows[i]))])
    IN  WithCol(d4, "keyword_flag",
                 [i \in DOMAIN d.rows |-> AsInt(KeywordHit(d.rows[i]))])

(***************************************************************************)
(* compute_risk_score                                                      *)
(***************************************************************************)
\* The table with the first two weights exchanged.
weights_swapped ==
    << <<"round_dollar_flag", 15>>,
       <<"after_hours_flag", 10>>,
       <<"weekend_flag", 10>>,
       <<"period_close_flag", 10>>,
       <<"approval_pending_flag", 10>>,
       <<"keyword_flag", 5>>,
       <<"rare_pair_flag", 15>>,
       <<"amount_outlier_flag", 20>>,
       <<"user_volume_outlier_flag", 15>> >>

weights ==
    << <<"round_dollar_flag", 10>>,
       <<"after_hours_flag", 15>>,
       <<"weekend_flag", 10>>,
       <<"period_close_flag", 10>>,
       <<"approval_pending_flag", 10>>,
       <<"keyword_flag", 5>>,
       <<"rare_pair_flag", 15>>,
       <<"amount_outlier_flag", 20>>,
       <<"user_volume_outlier_flag", 15>> >>

FlagNames == {weights[j][1] : j \in DOMAIN weights}

\* df.get(flag, 0): the column, or 0 when the dataset has no such column.
GetFlag(d, row, flag) == IF flag \in d.columns THEN row[flag] ELSE 0

\* The loop score += df.get(flag, 0) * weight over the first n weights.
RECURSIVE ScoreSum(_, _, _)
ScoreSum(d, row, n) ==
    IF n = 0 THEN 0
    ELSE ScoreSum(d, row, n - 1) + GetFlag(d, row, weights[n][1]) * weights[n][2]

\* The score left as it is.
NoClip(x, lo, hi) == x

\* np.clip(x, lo, hi)
Clip(x, lo, hi) == IF x < lo THEN lo ELSE IF x > hi THEN hi ELSE x

compute_risk_score(d) ==
    WithCol(d, "risk_score",
        [i \in DOMAIN d.rows |-> Clip(ScoreSum(d, d.rows[i], Len(weights)), 0, 100)])

(***************************************************************************)
(* load_data                                                               *)
(***************************************************************************)
expected_cols ==
    {"entry_id", "entity", "je_number", "line_num", "account", "offset_account",
     "description", "amount", "currency", "debit_credit", "posting_date",
     "posting_timestamp", "time_zone", "created_by", "source", "approval_status"}

parse_dates == {"posting_date", "posting_timestamp"}

\* The columns the raised ValueError names, {} when load_data returns:
\* read_csv raises for the parse_dates columns the file lacks, and only a
\* file that has both reaches the check of the expected columns.
load_data_names(file) ==
    IF parse_dates \ file.columns # {} THEN parse_dates \ file.columns
    ELSE expected_cols \ file.columns

load_data(file) == file

(***************************************************************************)
(* run: the state of one run and one action per statement of run().        *)
(***************************************************************************)
NoDf == [columns |-> {}, rows |-> <<>>]

NoError == [stage |-> "", type |-> "", names |-> {}]

Raise(stage, type, names) ==
    /\ pc' = "failed"
    /\ error' = [stage |-> stage, type |-> type, names |-> names]
    /\ UNCHANGED <<csv, df, output>>

Advance(d, next) ==
    /\ df' = d
    /\ pc' = next
    /\ UNCHANGED <<csv, error, output>>

run_load_data ==
    /\ pc = "load_data"
    /\ IF load_data_names(csv) # {}
       THEN Raise("load_data", "ValueError", load_data_names(csv))
       ELSE Advance(load_data(csv), "add_time_features")

run_add_time_features ==
    /\ pc = "add_time_features"
    /\ IF add_time_features_raises(df) # ""
       THEN Raise("add_time_features", add_time_features_raises(df), {})
       ELSE Advance(add_time_features(df), "compute_amount_stats")

run_compute_amount_stats ==
    /\ pc = "compute_amount_stats"
    /\ Advance(compute_amount_stats(df), "compute_user_volume")

run_compute_user_volume ==
    /\ pc = "compute_user_volume"
    /\ Advance(compute_user_volume(df), "compute_pair_rarity")

run_compute_pair_rarity ==
    /\ pc = "compute_pair_rarity"
    /\ Advance(compute_pair_rarity(df), "compute_rule_flags")

run_compute_rule_flags ==
    /\ pc = "compute_rule_flags"
    /\ IF compute_rule_flags_raises(df) # ""
       THEN Raise("compute_rule_flags", compute_rule_flags_raises(df), {})
       ELSE Advance(compute_rule_flags(df), "compute_risk_score")

run_compute_risk_score ==
    /\ pc = "compute_risk_score"
    /\ Advance(compute_risk_score(df), "to_csv")

run_to_csv ==
    /\ pc = "to_csv"
    /\ output' = df
    /\ pc' = "done"
    /\ UNCHANGED <<csv, df, error>>

Next ==
    \/ run_load_data
    \/ run_add_time_features
    \/ run_compute_amount_stats
    \/ run_compute_user_volume
    \/ run_compute_pair_rarity
    \/ run_compute_rule_flags
    \/ run_compute_risk_score
    \/ run_to_csv

(***************************************************************************)
(* The input files of the runs checked.  A file is NumFiller routine lines *)
(* of one user on one account, one entry a month, or a prefix of them,     *)
(* followed by one line whose cells range over the values below.           *)
(***************************************************************************)
NumFiller == 6

MaxMissing == 2

T_rent == <<"r", "e", "n", "t">>

T_WriteOff == <<"M", "a", "n", "u", "a", "l", " ", "W", "r", "i", "t", "e", "-", "o", "f", "f">>

T_Approved == <<"A", "p", "p", "r", "o", "v", "e", "d">>

T_Pending == <<"P", "e", "n", "d", "i", "n", "g">>

BaseRow ==
    [entry_id |-> 0, entity |-> "US", je_number |-> "JE", line_num |-> 1,
     account |-> "a1", offset_account |-> "o1", description |-> T_rent,
     amount |-> 1, currency |-> "USD", debit_credit |-> "D",
     posting_date |-> [month |-> 1, day |-> 10],
     posting_timestamp |-> [month |-> 1, day |-> 10, hour |-> 10],
     time_zone |-> "UTC", created_by |-> "u1", source |-> "GL",
     approval_status |-> T_Approved]

\* The i-th routine line: entry 100 + i, posted on the 10th of month i.
FillerRow(i) ==
    [BaseRow EXCEPT !.entry_id = 100 + i,
                    !.amount = IF i % 2 = 0 THEN 1 ELSE -1,
                    !.posting_date = [month |-> ((i - 1) % 12) + 1, day |-> 10],
                    !.posting_timestamp = [month |-> ((i - 1) % 12) + 1, day |-> 10, hour |-> 10]]

Fillers(k) == [i \in 1..k |-> FillerRow(i)]

\* The last line of a file: its cells range over these values.
ProbeRows ==
    {[BaseRow EXCEPT !.entry_id = e, !.line_num = 2, !.entity = en, !.account = a,
                     !.offset_account = o, !.description = dsc, !.amount = am,
                     !.posting_date = pd, !.posting_timestamp = ts,
                     !.time_zone = tz, !.approval_status = ap] :
        e \in {106, 200}, en \in {"US", "APAC", "ZZ"}, a \in {"a1", "a2"},
        o \in {"o1", "o2", Null}, tz \in {"UTC", "America/New_York"}, dsc \in {T_rent, T_WriteOff, NullText}, am \in {1, -500},
        pd \in {[month |-> 6, day |-> 25], [month |-> 6, day |-> 26],
                [month |-> 6, day |-> 29]},
        ts \in {[month |-> 6, day |-> 25, hour |-> 8],
                [month |-> 6, day |-> 25, hour |-> 22],
                [month |-> 3, day |-> 10, hour |-> 2]},
        ap \in {T_Approved, T_Pending, NullText}}

\* The cells of the rows under the columns the file has.
File(cols, rows) ==
    [columns |-> cols, rows |-> [i \in DOMAIN rows |-> [c \in cols |-> rows[i][c]]]]

\* A file with every expected column: k routine lines and a last line.
CompleteFile(k, p) == File(expected_cols, Append(Fillers(k), p))

\* A file that lacks the columns m.
IncompleteFile(m) == File(expected_cols \ m, Fillers(2))

InitRun(file) ==
    /\ csv = file
    /\ df = NoDf
    /\ pc = "load_data"
    /\ error = NoError
    /\ output = NoDf

Init ==
    \/ \E k \in 0..NumFiller, p \in ProbeRows : InitRun(CompleteFile(k, p))
    \/ \E m \in SUBSET expected_cols :
          /\ m # {}
          /\ Cardinality(m) <= MaxMissing
          /\ InitRun(IncompleteFile(m))

Spec == Init /\ [][Next]_vars

(***************************************************************************)
(* compute_amount_stats on its own: datasets of up to MaxAmountRows lines  *)
(* over two accounts, as add_time_features hands them over.                *)
(***************************************************************************)
MaxAmountRows == 6

AmountRows ==
    {[BaseRow EXCEPT !.account = a, !.amount = am] :
        a \in {"a1", "a2"}, am \in {-1, 1, 4}}

\* Lines numbered from 1 within one entry per dataset.
Numbered(rows) == [i \in DOMAIN rows |-> [rows[i] EXCEPT !.line_num = i]]


InitStage(file, d, stage) ==
    /\ csv = file
    /\ df = d
    /\ pc = stage
    /\ error = NoError
    /\ output = NoDf

InitAmount ==
    \E n \in 1..MaxAmountRows :
        \E rows \in [1..n -> AmountRows] :
            InitStage(File(expected_cols, Numbered(rows)),
                      add_time_features(load_data(File(expected_cols, Numbered(rows)))),
                      "compute_amount_stats")

SpecAmount == InitAmount /\ [][run_compute_amount_stats]_vars

(***************************************************************************)
(* compute_user_volume on its own: user u1 over NumMonths months and user  *)
(* u2 in the first month, each month holding no entry, one entry of one    *)
(* line, one entry of two lines, or two entries of one line.               *)
(***************************************************************************)
NumMonths == 6

MonthLines(user, base, m, pattern) ==
    LET line(e, l) ==
            [BaseRow EXCEPT !.created_by = user, !.entry_id = base + 10 * m + e,
                            !.line_num = l,
                            !.posting_date = [month |-> ((m - 1) % 12) + 1, day |-> 10 + l]]
    IN  CASE pattern = 0 -> <<>>
          [] pattern = 1 -> <<line(1, 1)>>
          [] pattern = 2 -> <<line(1, 1), line(1, 2)>>
          [] pattern = 3 -> <<line(1, 1), line(2, 1)>>

VolumeDataset(plan, other) ==
    Flatten([m \in 1..NumMonths |-> MonthLines("u1", 100, m, plan[m])])
        \o MonthLines("u2", 900, 1, other)

InitVolume ==
    \E plan \in [1..NumMonths -> 0..3], other \in 0..3 :
        /\ VolumeDataset(plan, other) # <<>>
        /\ InitStage(File(expected_cols, VolumeDataset(plan, other)),
                     compute_amount_stats(add_time_features(load_data(
                         File(expected_cols, VolumeDataset(plan, other))))),
                     "compute_user_volume")

SpecVolume == InitVolume /\ [][run_compute_user_volume]_vars

(***************************************************************************)
(* compute_pair_rarity on its own: datasets of up to MaxPairRows lines     *)
(* over two accounts and two offset accounts, the offset cell may be empty.*)
(***************************************************************************)
MaxPairRows == 5

PairRows ==
    {[BaseRow EXCEPT !.account = a, !.offset_account = o] :
        a \in {"a1", "a2"}, o \in {"o1", "o2", Null}}


InitPair ==
    \E n \in 1..MaxPairRows :
        \E rows \in [1..n -> PairRows] :
            InitStage(File(expected_cols, Numbered(rows)),
                      compute_user_volume(compute_amount_stats(add_time_features(
                          load_data(File(expected_cols, Numbered(rows)))))),
                      "compute_pair_rarity")

SpecPair == InitPair /\ [][run_compute_pair_rarity]_vars

(***************************************************************************)
(* compute_risk_score on its own: a dataset that holds any subset of the   *)
(* nine flag columns.  The first line takes any flags; up to MaxMoreLines  *)
(* further lines have all their flags clear or all set.                    *)
(***************************************************************************)
MaxMoreLines == 1

ScoreDataset(cols, first, more) ==
    [columns |-> {"entry_id", "line_num"} \cup cols,
     rows    |-> [i \in 1..(1 + Len(more)) |->
                    [entry_id |-> 1, line_num |-> i] @@
                    (IF i = 1 THEN first ELSE [c \in cols |-> more[i - 1]])]]

InitScore ==
    \E cols \in SUBSET FlagNames :
        \E first \in [cols -> {0, 1}], n \in 0..MaxMoreLines :
            \E more \in [1..n -> {0, 1}] :
                InitStage(ScoreDataset(cols, first, more),
                          ScoreDataset(cols, first, more), "compute_risk_score")

SpecScore == InitScore /\ [][run_compute_risk_score]_vars

(***************************************************************************)
(* Properties.                                                             *)
(***************************************************************************)
RECURSIVE SumSet(_, _)
SumSet(S, f) == IF S = {} THEN 0
                ELSE LET x == CHOOSE y \in S : TRUE IN f[x] + SumSet(S \ {x}, f)

Has(c) == c \in df.columns

Lines == DOMAIN df.rows

\* The identity of each line, in row order.
Ident(d) == [i \in DOMAIN d.rows |-> <<d.rows[i].entry_id, d.rows[i].line_num>>]

\* C1: every row of the dataset once compute_risk_score has run, and every
\* row of the written output, has 0 <= risk_score <= 100.
C1_ScoreBounds ==
    /\ Has("risk_score") =>
          \A i \in Lines : df.rows[i].risk_score >= 0 /\ df.rows[i].risk_score <= 100
    /\ \A i \in DOMAIN output.rows :
          output.rows[i].risk_score >= 0 /\ output.rows[i].risk_score <= 100

\* A written row with all nine flags set: its weighted sum is 110, its score 100.
C1_Witness ==
    /\ pc = "done"
    /\ \E i \in DOMAIN output.rows :
          /\ \A f \in FlagNames : output.rows[i][f] = 1
          /\ output.rows[i].risk_score = 100

\* C2: after load_data and after every later stage, and in the written
\* output, the dataset holds the (entry_id, line_num) pairs of the input file,
\* the same number of them in the same order.
C2_RowsPreserved ==
    /\ df # NoDf => Ident(df) = Ident(csv)
    /\ pc = "done" => Ident(output) = Ident(csv)

\* A written output of several lines in which two lines share their account
\* with different amounts, and share their user and month.
C2_Witness ==
    /\ pc = "done"
    /\ \E i, j \in DOMAIN output.rows :
          /\ i # j
          /\ output.rows[i].account = output.rows[j].account
          /\ output.rows[i].abs_amount # output.rows[j].abs_amount
          /\ output.rows[i].created_by = output.rows[j].created_by
          /\ output.rows[i].month_start = output.rows[j].month_start

\* The lines of the account of line i.
AccountGroup(i) == {j \in Lines : df.rows[j].account = df.rows[i].account}

\* C3: once compute_amount_stats has run, every line of an account group of
\* one line, or whose lines all have the same |amount|, has amount_z = 0 and
\* amount_outlier_flag = 0.
C3_ZeroVariance ==
    Has("amount_z") =>
        \A i \in Lines :
            (\/ Cardinality(AccountGroup(i)) = 1
             \/ \A j \in AccountGroup(i) : Abs(df.rows[j].amount) = Abs(df.rows[i].amount))
            => df.rows[i].amount_z = ZeroZ /\ df.rows[i].amount_outlier_flag = 0

\* A dataset with an account of one line and an account whose lines have
\* amounts of both signs and one absolute value.
C3_Witness ==
    /\ Has("amount_z")
    /\ \E i \in Lines : Cardinality(AccountGroup(i)) = 1 /\ df.rows[i].amount_z = ZeroZ
    /\ \E i \in Lines :
          /\ \E j \in AccountGroup(i) : df.rows[j].amount = -df.rows[i].amount
          /\ \A j \in AccountGroup(i) : Abs(df.rows[j].amount) = Abs(df.rows[i].amount)
          /\ df.rows[i].amount_z = ZeroZ

\* C9: once compute_amount_stats has run, every line of an account group of
\* fewer than 6 lines has amount_outlier_flag = 0.
C9_SmallGroupNoOutlier ==
    Has("amount_outlier_flag") =>
        \A i \in Lines :
            Cardinality(AccountGroup(i)) < 6 => df.rows[i].amount_outlier_flag = 0

\* A group of 5 lines with a line at the largest z-score a group of 5 allows,
\* (5 - 1) / sqrt(5), that is z^2 = 16 / 5, and not flagged.
C9_Witness ==
    /\ Has("amount_outlier_flag")
    /\ \E i \in Lines :
          /\ Cardinality(AccountGroup(i)) = 5
          /\ df.rows[i].amount_z.sgn = 1
          /\ 5 * df.rows[i].amount_z.p = 16 * df.rows[i].amount_z.q
          /\ df.rows[i].amount_outlier_flag = 0

\* The lines of a user in a month, the distinct entries among them, and the
\* months of a user.
C7_Lines(u, m) ==
    {i \in Lines : df.rows[i].created_by = u /\ df.rows[i].posting_date.month = m}

C7_Volume(u, m) == Cardinality({df.rows[i].entry_id : i \in C7_Lines(u, m)})

C7_Months(u) == {df.rows[i].posting_date.month : i \in {j \in Lines : df.rows[j].created_by = u}}

C7_Users == {df.rows[i].created_by : i \in Lines}

\* C7: once compute_user_volume has run, every line carries the z-score of
\* its (user, month): (volume - mean) / sample deviation of the user's monthly
\* numbers of distinct entries, 0 when the deviation is 0 or undefined; and
\* user_volume_outlier_flag = 1 iff that z-score is >= 2.
\* With n months, d = n (volume - mean) and V = n sum(v^2) - sum(v)^2, the
\* z-score has the sign of d and z^2 = d^2 (n - 1) / (n V).
C7_UserVolume ==
    Has("entry_volume_z") =>
        \A u \in C7_Users :
            LET vol == [m \in C7_Months(u) |-> C7_Volume(u, m)]
                n   == Cardinality(C7_Months(u))
                S   == SumSet(C7_Months(u), vol)
                Q   == SumSet(C7_Months(u), [m \in C7_Months(u) |-> vol[m] * vol[m]])
                V   == n * Q - S * S
            IN  \A m \in C7_Months(u) :
                    LET d == n * vol[m] - S
                    IN  \A i \in C7_Lines(u, m) :
                            LET z == df.rows[i].entry_volume_z
                            IN  IF n < 2 \/ V = 0
                                THEN z = ZeroZ /\ df.rows[i].user_volume_outlier_flag = 0
                                ELSE /\ z.q > 0
                                     /\ z.sgn = Sign(d)
                                     /\ z.p * n * V = d * d * (n - 1) * z.q
                                     /\ df.rows[i].user_volume_outlier_flag = 1
                                          <=> (d > 0 /\ d * d * (n - 1) >= 4 * n * V)

\* A flagged line of a user who also has an entry of two lines.
C7_Witness ==
    /\ Has("entry_volume_z")
    /\ \E i, j, k \in Lines :
          /\ df.rows[i].user_volume_outlier_flag = 1
          /\ j # k
          /\ df.rows[j].entry_id = df.rows[k].entry_id
          /\ df.rows[j].created_by = df.rows[i].created_by

\* The lines that hold the same (account, offset_account) pair as line i.
SamePair(i) ==
    {j \in Lines : /\ df.rows[j].account = df.rows[i].account
                   /\ df.rows[j].offset_account = df.rows[i].offset_account}

HasPair(i) == df.rows[i].account # Null /\ df.rows[i].offset_account # Null

C10_LeastFrequentFlagged ==
    Has("rare_pair_flag") =>
        \A i \in Lines :
            (/\ HasPair(i)
             /\ \A j \in AccountGroup(i) :
                   HasPair(j) => Cardinality(SamePair(i)) <= Cardinality(SamePair(j)))
            => df.rows[i].rare_pair_flag = 1

\* C5: once load_data has run on a file that lacks expected columns, the run
\* has failed there with an error that names every missing column, no stage
\* has run and nothing is written; on a file that lacks none, load_data has
\* not failed.
C5_NamesEveryMissing ==
    pc # "load_data" =>
        IF expected_cols \ csv.columns # {}
        THEN /\ pc = "failed"
             /\ error.stage = "load_data"
             /\ error.names = expected_cols \ csv.columns
             /\ df = NoDf
             /\ output = NoDf
        ELSE error.stage # "load_data"

\* The weights as the claim lists them.
C6_Weight ==
    [round_dollar_flag |-> 10, after_hours_flag |-> 15, weekend_flag |-> 10,
     period_close_flag |-> 10, approval_pending_flag |-> 10, keyword_flag |-> 5,
     rare_pair_flag |-> 15, amount_outlier_flag |-> 20, user_volume_outlier_flag |-> 15]

C6_Present == DOMAIN C6_Weight \cap df.columns

\* C6: compute_risk_score does not fail on a dataset that holds any subset of
\* the nine flag columns, and gives every line the score
\* min(100, sum over the flag columns present of flag * weight).
C6_WeightedSum ==
    /\ pc # "failed"
    /\ Has("risk_score") =>
          \A i \in Lines :
              df.rows[i].risk_score =
                  Min(100, SumSet(C6_Present,
                                  [f \in C6_Present |-> df.rows[i][f] * C6_Weight[f]]))

\* A scored dataset that lacks some flag columns and holds others, with a
\* line that scores above 0.
C6_Witness ==
    /\ Has("risk_score")
    /\ DOMAIN C6_Weight \ df.columns # {}
    /\ C6_Present # {}
    /\ \E i \in Lines : df.rows[i].risk_score > 0

\* C8: a stage is total on the datasets load_data accepts; stated for
\* compute_rule_flags, the stage that reads the description and
\* approval_status cells, which may be empty: no run fails in it.
C8_RuleFlagsTotal == ~(pc = "failed" /\ error.stage = "compute_rule_flags")

====
